---- MODULE Spec2Model ----
(***************************************************************************)
(* fig/project.py: the dependency sort of service declarations             *)
(* (sort_service_dicts), the Project registry built from them (from_dicts, *)
(* get_service, get_services) and the lifecycle operations that iterate it.*)
(*                                                                         *)
(* A Python string is a sequence of one-character strings, so that split,  *)
(* rsplit, concatenation and comparison are computed, not assumed.         *)
(***************************************************************************)
EXTENDS Integers, Sequences, FiniteSets, TLC

VARIABLES
    pc,             \* position of the caller: which call comes next
    service_dicts,  \* the declarations handed to sort_service_dicts / from_dicts
    sort_outcome,   \* what sort_service_dicts returned or raised
    name,           \* Project.name
    namespace,      \* Project.namespace
    services,       \* Project.services: the registry, a sequence of Service objects
    todo,           \* from_dicts: sorted declarations not yet turned into services
    error,          \* the exception the last call raised, NoError if none
    calls,          \* the calls the last lifecycle operation made on services, in order
    request,        \* the last operation called on the project and its arguments
    ret             \* the value the last query returned

vars == <<pc, service_dicts, sort_outcome, name, namespace, services, todo,
          error, calls, request, ret>>

----------------------------------------------------------------------------
(* Bounds of the model.                                                    *)

\* most references (links and volumes_from entries together) in the
\* declaration sets handed to sort_service_dicts alone
MaxRefs == 4

\* most references in the declaration sets a project is built from
MaxProjectRefs == 2

\* most names in a service_names argument
MaxRequested == 2

\* the service names declarations use, the alias of an aliased link
Names == {<<"a">>, <<"b">>, <<"c">>}
Alias == <<"x">>

----------------------------------------------------------------------------
(* Python strings.                                                         *)

\* ord(): the code points of the characters in use
Ord(ch) ==
    CASE ch = ":" -> 58
      [] ch = "_" -> 95
      [] ch = "a" -> 97
      [] ch = "b" -> 98
      [] ch = "c" -> 99
      [] ch = "p" -> 112
      [] ch = "q" -> 113
      [] ch = "x" -> 120

\* s < t on strings: lexicographic by code point
RECURSIVE StrLess(_, _)
StrLess(s, t) ==
    IF t = <<>> THEN FALSE
    ELSE IF s = <<>> THEN TRUE
    ELSE IF Head(s) # Head(t) THEN Ord(Head(s)) < Ord(Head(t))
    ELSE StrLess(Tail(s), Tail(t))

\* str.find(ch): the first position of ch in s, 0 when absent
FirstIndex(s, ch) ==
    IF \E i \in 1..Len(s) : s[i] = ch
    THEN CHOOSE i \in 1..Len(s) : s[i] = ch /\ \A j \in 1..(i - 1) : s[j] # ch
    ELSE 0

\* str.rfind(ch): the last position of ch in s, 0 when absent
LastIndex(s, ch) ==
    IF \E i \in 1..Len(s) : s[i] = ch
    THEN CHOOSE i \in 1..Len(s) : s[i] = ch /\ \A j \in (i + 1)..Len(s) : s[j] # ch
    ELSE 0

\* ch in s
HasChar(s, ch) == \E i \in 1..Len(s) : s[i] = ch

\* s.split(ch)[0]
SplitHead(s, ch) ==
    IF HasChar(s, ch) THEN SubSeq(s, 1, FirstIndex(s, ch) - 1) ELSE s

\* s.split(ch, 1)[1], for s that contains ch
SplitRest(s, ch) == SubSeq(s, FirstIndex(s, ch) + 1, Len(s))

\* s.rsplit(ch, 1), for s that contains ch
RSplit(s, ch) ==
    <<SubSeq(s, 1, LastIndex(s, ch) - 1), SubSeq(s, LastIndex(s, ch) + 1, Len(s))>>

\* the elements of a Python list
SeqRange(seq) == {seq[i] : i \in 1..Len(seq)}

\* x in seq, for a Python list
InList(x, seq) == \E i \in 1..Len(seq) : seq[i] = x

\* list.remove(x): drops the first element equal to x
ListRemove(seq, x) ==
    LET i == CHOOSE k \in 1..Len(seq) : seq[k] = x /\ \A j \in 1..(k - 1) : seq[j] # x
    IN  SubSeq(seq, 1, i - 1) \o SubSeq(seq, i + 1, Len(seq))

----------------------------------------------------------------------------
(* sort_service_dicts                                                      *)

\* sorted(services, key=itemgetter('name')): a stable insertion by name
RECURSIVE InsertByName(_, _)
InsertByName(d, seq) ==
    IF seq = <<>> THEN <<d>>
    ELSE IF StrLess(d.name, Head(seq).name) THEN <<d>> \o seq
    ELSE <<Head(seq)>> \o InsertByName(d, Tail(seq))

\* a bug: the declarations are taken in the order they were given
SortedAsGiven(seq) == seq

RECURSIVE SortedByName(_)
SortedByName(seq) ==
    IF seq = <<>> THEN <<>>
    ELSE InsertByName(seq[Len(seq)], SortedByName(SubSeq(seq, 1, Len(seq) - 1)))

\* a bug: the alias is not stripped from a link
GetServiceNamesKeepAlias(links) == links

\* get_service_names = lambda links: [link.split(':')[0] for link in links]
get_service_names(links) == [i \in 1..Len(links) |-> SplitHead(links[i], ":")]

\* a bug: the error names only the declaration the visit closed on
RaiseOnMarkedOnlyClosing(n, temporary_marked) ==
    IF InList(n.name, get_service_names(n.links))
    THEN [kind |-> "self_link", names |-> {n.name}]
    ELSE IF InList(n.name, n.volumes_from)
    THEN [kind |-> "self_volume", names |-> {n.name}]
    ELSE [kind |-> "circular", names |-> {n.name}]

\* the DependencyError visit raises on a declaration that is temporarily marked
RaiseOnMarked(n, temporary_marked) ==
    IF InList(n.name, get_service_names(n.links))
    THEN [kind |-> "self_link", names |-> {n.name}]
    ELSE IF InList(n.name, n.volumes_from)
    THEN [kind |-> "self_volume", names |-> {n.name}]
    ELSE [kind |-> "circular", names |-> temporary_marked]

\* dependents = [m for m in services if n['name'] in links of m or in volumes_from of m]
Dependents(n, all) ==
    SelectSeq(all, LAMBDA m : InList(n.name, get_service_names(m.links))
                              \/ InList(n.name, m.volumes_from))

NoError == [kind |-> "none", names |-> {}]

\* visit(n) on the state st = (unmarked, temporary_marked, sorted_services, err);
\* a raised DependencyError is st.err and ends every enclosing visit
RECURSIVE Visit(_, _, _), VisitEach(_, _, _)
Visit(n, st, all) ==
    IF st.err # NoError THEN st
    ELSE IF n.name \in st.temporary_marked
    THEN [st EXCEPT !.err = RaiseOnMarked(n, st.temporary_marked)]
    ELSE IF InList(n, st.unmarked)
    THEN LET marked == [st EXCEPT !.temporary_marked = @ \cup {n.name}]
             after  == VisitEach(Dependents(n, all), marked, all)
         IN  IF after.err # NoError THEN after
             ELSE [after EXCEPT !.temporary_marked = @ \ {n.name},
                                !.unmarked = ListRemove(@, n),
                                !.sorted_services = <<n>> \o @]
    ELSE st

\* for m in dependents: visit(m)
VisitEach(ms, st, all) ==
    IF ms = <<>> \/ st.err # NoError THEN st
    ELSE VisitEach(Tail(ms), Visit(Head(ms), st, all), all)

\* while unmarked: visit(unmarked[-1])
RECURSIVE VisitUnmarked(_, _)
VisitUnmarked(st, all) ==
    IF st.err # NoError \/ st.unmarked = <<>> THEN st
    ELSE VisitUnmarked(Visit(st.unmarked[Len(st.unmarked)], st, all), all)

\* sort_service_dicts(services): the sequence returned, or the error raised
sort_service_dicts(all) ==
    LET final == VisitUnmarked([unmarked |-> SortedByName(all),
                                temporary_marked |-> {},
                                sorted_services |-> <<>>,
                                err |-> NoError], all)
    IN  [raised |-> final.err,
         returned |-> IF final.err = NoError THEN final.sorted_services ELSE <<>>]

----------------------------------------------------------------------------
(* The declaration sets the model draws its inputs from.                   *)

\* the sequences without repetition over a set of names
RECURSIVE Orderings(_)
Orderings(S) ==
    IF S = {} THEN {<<>>}
    ELSE UNION {{<<n>> \o o : o \in Orderings(S \ {n})} : n \in S}

\* a set of names as a list, ascending
RECURSIVE Ascending(_)
Ascending(S) ==
    IF S = {} THEN <<>>
    ELSE LET least == CHOOSE n \in S : \A m \in S \ {n} : StrLess(n, m)
         IN  <<least>> \o Ascending(S \ {least})

\* the text of a link: 'target' or 'target:alias'
LinkText(target, aliased) == IF aliased THEN target \o <<":">> \o Alias ELSE target

\* the declaration of n that links the names in linked and mounts those in mounted
Declaration(n, linked, mounted, aliased) ==
    LET ls == Ascending(linked)
    IN  [name |-> n,
         links |-> [i \in 1..Len(ls) |-> LinkText(ls[i], aliased)],
         volumes_from |-> Ascending(mounted)]

\* the (links, volumes_from) choices of one declaration with at most k references
RefChoices(k) ==
    {c \in (SUBSET Names) \X (SUBSET Names) : Cardinality(c[1]) + Cardinality(c[2]) <= k}

\* the lists of declarations named as order says, with at most k references
RECURSIVE DeclarationsOf(_, _, _)
DeclarationsOf(order, k, aliased) ==
    IF order = <<>> THEN {<<>>}
    ELSE UNION {{<<Declaration(Head(order), c[1], c[2], aliased)>> \o rest :
                     rest \in DeclarationsOf(Tail(order),
                                             k - Cardinality(c[1]) - Cardinality(c[2]),
                                             aliased)} :
                c \in RefChoices(k)}

\* the orders of every set of declared names
NameOrders == UNION {Orderings(declared) : declared \in SUBSET Names}

\* d is a list of declarations with distinct names, in some order, with at
\* most k references, the links all aliased or all bare
IsDeclarationList(d, k) ==
    \E order \in NameOrders, aliased \in BOOLEAN : d \in DeclarationsOf(order, k, aliased)

----------------------------------------------------------------------------
(* The caller of sort_service_dicts alone.                                 *)

NoOutcome == [raised |-> NoError, returned |-> <<>>]
NoRequest == [op |-> "none"]

SortInit ==
    /\ pc = "sort"
    /\ IsDeclarationList(service_dicts, MaxRefs)
    /\ sort_outcome = NoOutcome
    /\ name = <<>> /\ namespace = <<>>
    /\ services = <<>> /\ todo = <<>>
    /\ error = NoError /\ calls = <<>> /\ request = NoRequest /\ ret = <<>>

CallSort ==
    /\ pc = "sort"
    /\ sort_outcome' = sort_service_dicts(service_dicts)
    /\ pc' = "sorted"
    /\ UNCHANGED <<service_dicts, name, namespace, services, todo, error, calls,
                   request, ret>>

SortNext == CallSort

SortSpec == SortInit /\ [][SortNext]_vars

----------------------------------------------------------------------------
(* Project: the registry and its lookups.                                  *)

\* Python's None, where a string is optional: no string of the program
\* equals it
None == <<"None">>

\* the (name, namespace) arguments projects are built with
ProjectNames == {<<"p">>, <<"p", "_", "q">>}
ProjectArgs == {<<<<"p">>, None>>, <<<<"p">>, <<"q">>>>, <<<<"p", "_", "q">>, None>>}

\* Project.__init__: self.namespace = namespace or name
DefaultNamespace(namespace_arg, project_name) ==
    IF namespace_arg = None \/ namespace_arg = <<>> THEN project_name ELSE namespace_arg

\* a bug: the key is split at its first '_', not its last
ResolveKeySplitFirst(key, project_name, project_namespace) ==
    IF HasChar(key, "_")
    THEN LET prefix == SplitHead(key, "_")
         IN  [project_name |-> IF prefix # project_namespace
                               THEN project_namespace \o prefix
                               ELSE prefix,
              service_name |-> SplitRest(key, "_")]
    ELSE [project_name |-> project_name, service_name |-> key]

\* get_service, lines 99-105: the project and the service a key stands for
ResolveKey(key, project_name, project_namespace) ==
    IF HasChar(key, "_")
    THEN LET parts == RSplit(key, "_")
         IN  [project_name |-> IF parts[1] # project_namespace
                               THEN project_namespace \o parts[1]
                               ELSE parts[1],
              service_name |-> parts[2]]
    ELSE [project_name |-> project_name, service_name |-> key]

\* for service in self.services: if service.name == service_name: return service
\* (a Service object is its position in self.services; 0 when the loop ends)
FindService(registry, service_name) ==
    IF \E i \in 1..Len(registry) : registry[i].name = service_name
    THEN CHOOSE i \in 1..Len(registry) :
             /\ registry[i].name = service_name
             /\ \A j \in 1..(i - 1) : registry[j].name # service_name
    ELSE 0

\* a bug: NoSuchService carries the short name, not the key as passed
GetServiceRaisesShortName(key, registry, project_name, project_namespace) ==
    LET resolved == ResolveKey(key, project_name, project_namespace)
        found == IF resolved.project_name = project_name
                 THEN FindService(registry, resolved.service_name)
                 ELSE 0
    IN  IF found # 0
        THEN [raised |-> NoError, service |-> found]
        ELSE [raised |-> [kind |-> "NoSuchService", names |-> {resolved.service_name}],
              service |-> 0]

\* Project.get_service(key): the service found, or NoSuchService(key)
get_service(key, registry, project_name, project_namespace) ==
    LET resolved == ResolveKey(key, project_name, project_namespace)
        found == IF resolved.project_name = project_name
                 THEN FindService(registry, resolved.service_name)
                 ELSE 0
    IN  IF found # 0
        THEN [raised |-> NoError, service |-> found]
        ELSE [raised |-> [kind |-> "NoSuchService", names |-> {key}], service |-> 0]

\* Service.get_linked_services(): the services of self.links, in order
get_linked_services(registry, service) ==
    [i \in 1..Len(registry[service].links) |-> registry[service].links[i].service]

\* a bug: the service comes before the services it links to
RECURSIVE AddLinkedServicesAfter(_, _), FlatMapAddLinkedAfter(_, _)
AddLinkedServicesAfter(registry, service) ==
    <<service>> \o FlatMapAddLinkedAfter(registry, get_linked_services(registry, service))

FlatMapAddLinkedAfter(registry, seq) ==
    IF seq = <<>> THEN <<>>
    ELSE AddLinkedServicesAfter(registry, Head(seq))
         \o FlatMapAddLinkedAfter(registry, Tail(seq))

\* get_services._add_linked_services(service), and flat_map of it over seq
RECURSIVE add_linked_services(_, _), FlatMapAddLinked(_, _)
add_linked_services(registry, service) ==
    LET linked_services == get_linked_services(registry, service)
    IN  IF linked_services = <<>> THEN <<service>>
        ELSE FlatMapAddLinked(registry, linked_services) \o <<service>>

FlatMapAddLinked(registry, seq) ==
    IF seq = <<>> THEN <<>>
    ELSE add_linked_services(registry, Head(seq)) \o FlatMapAddLinked(registry, Tail(seq))

\* [uniques.append(s) for s in services if s not in uniques]
RECURSIVE UniquesFrom(_, _)
UniquesFrom(uniques, seq) ==
    IF seq = <<>> THEN uniques
    ELSE UniquesFrom(IF InList(Head(seq), uniques) THEN uniques
                     ELSE Append(uniques, Head(seq)),
                     Tail(seq))

Uniques(seq) == UniquesFrom(<<>>, seq)

\* a bug: the services found before the missing name are kept
RECURSIVE GetEachKeepFound(_, _, _, _)
GetEachKeepFound(service_names, registry, project_name, project_namespace) ==
    IF service_names = <<>> THEN [raised |-> NoError, services |-> <<>>]
    ELSE LET first == get_service(Head(service_names), registry, project_name,
                                  project_namespace)
             rest  == GetEachKeepFound(Tail(service_names), registry, project_name,
                                       project_namespace)
         IN  IF first.raised # NoError THEN [raised |-> first.raised, services |-> <<>>]
             ELSE [raised |-> rest.raised, services |-> <<first.service>> \o rest.services]

\* [self.get_service(name) for name in service_names]: the first NoSuchService
\* ends the comprehension
RECURSIVE GetEach(_, _, _, _)
GetEach(service_names, registry, project_name, project_namespace) ==
    IF service_names = <<>> THEN [raised |-> NoError, services |-> <<>>]
    ELSE LET first == get_service(Head(service_names), registry, project_name,
                                  project_namespace)
             rest  == GetEach(Tail(service_names), registry, project_name,
                              project_namespace)
         IN  IF first.raised # NoError THEN [raised |-> first.raised, services |-> <<>>]
             ELSE IF rest.raised # NoError THEN rest
             ELSE [raised |-> NoError, services |-> <<first.service>> \o rest.services]

\* Project.get_services(service_names, include_links)
get_services(service_names, include_links, registry, project_name, project_namespace) ==
    IF service_names = <<>>
    THEN [raised |-> NoError, services |-> [i \in 1..Len(registry) |-> i]]
    ELSE LET named == GetEach(service_names, registry, project_name, project_namespace)
         IN  IF named.raised # NoError THEN named
             ELSE [raised |-> NoError,
                   services |-> Uniques(IF include_links
                                        THEN FlatMapAddLinked(registry, named.services)
                                        ELSE named.services)]

----------------------------------------------------------------------------
(* Project.from_dicts                                                      *)

ConfigurationError(what, owner, target) ==
    [kind |-> "ConfigurationError", names |-> {}, what |-> what,
     owner |-> owner, target |-> target]

\* a bug: the error names the whole link text, alias included
GetLinkedServiceNamesLink(link, owner, registry, project_name, project_namespace) ==
    LET service_name == IF HasChar(link, ":") THEN SplitHead(link, ":") ELSE link
        link_name    == IF HasChar(link, ":") THEN SplitRest(link, ":") ELSE None
        got == get_service(service_name, registry, project_name, project_namespace)
    IN  IF got.raised # NoError
        THEN [raised |-> ConfigurationError("link", owner, link),
              link |-> [service |-> 0, alias |-> None]]
        ELSE [raised |-> NoError, link |-> [service |-> got.service, alias |-> link_name]]

\* get_links.get_linked_service(link): ServiceLink(service, link_name), or
\* the ConfigurationError made of NoSuchService
get_linked_service(link, owner, registry, project_name, project_namespace) ==
    LET service_name == IF HasChar(link, ":") THEN SplitHead(link, ":") ELSE link
        link_name    == IF HasChar(link, ":") THEN SplitRest(link, ":") ELSE None
        got == get_service(service_name, registry, project_name, project_namespace)
    IN  IF got.raised # NoError
        THEN [raised |-> ConfigurationError("link", owner, service_name),
              link |-> [service |-> 0, alias |-> None]]
        ELSE [raised |-> NoError, link |-> [service |-> got.service, alias |-> link_name]]

\* Project.get_links(config_links, name): map(get_linked_service, config_links or [])
RECURSIVE get_links(_, _, _, _, _)
get_links(config_links, owner, registry, project_name, project_namespace) ==
    IF config_links = <<>> THEN [raised |-> NoError, links |-> <<>>]
    ELSE LET first == get_linked_service(Head(config_links), owner, registry,
                                         project_name, project_namespace)
             rest  == get_links(Tail(config_links), owner, registry, project_name,
                                project_namespace)
         IN  IF first.raised # NoError THEN [raised |-> first.raised, links |-> <<>>]
             ELSE IF rest.raised # NoError THEN rest
             ELSE [raised |-> NoError, links |-> <<first.link>> \o rest.links]

\* a bug: the runtime client is asked first, the registry only after APIError
RECURSIVE GetVolumesFromContainerFirst(_, _, _, _, _, _)
GetVolumesFromContainerFirst(volume_names, owner, registry, project_name, project_namespace, existing) ==
    IF volume_names = <<>>
    THEN [raised |-> NoError, volumes_from |-> <<>>, lookups |-> <<>>]
    ELSE LET volume_name == Head(volume_names)
             got  == get_service(volume_name, registry, project_name, project_namespace)
             rest == GetVolumesFromContainerFirst(Tail(volume_names), owner, registry,
                                                  project_name, project_namespace, existing)
             source == IF volume_name \in existing
                       THEN [kind |-> "container", service |-> 0, id |-> volume_name]
                       ELSE [kind |-> "service", service |-> got.service, id |-> None]
         IN  IF got.raised # NoError /\ volume_name \notin existing
             THEN [raised |-> ConfigurationError("volumes_from", owner, volume_name),
                   volumes_from |-> <<>>, lookups |-> <<volume_name>>]
             ELSE IF rest.raised # NoError
             THEN [rest EXCEPT !.lookups = <<volume_name>> \o rest.lookups]
             ELSE [raised |-> NoError, volumes_from |-> <<source>> \o rest.volumes_from,
                   lookups |-> <<volume_name>> \o rest.lookups]

\* Project.get_volumes_from(service_dict); existing is the set of names for
\* which Container.from_id finds a container, every other name gets APIError;
\* lookups are the names Container.from_id was called with, in order
RECURSIVE get_volumes_from(_, _, _, _, _, _)
get_volumes_from(volume_names, owner, registry, project_name, project_namespace, existing) ==
    IF volume_names = <<>>
    THEN [raised |-> NoError, volumes_from |-> <<>>, lookups |-> <<>>]
    ELSE LET volume_name == Head(volume_names)
             got  == get_service(volume_name, registry, project_name, project_namespace)
             rest == get_volumes_from(Tail(volume_names), owner, registry, project_name,
                                      project_namespace, existing)
             source == IF got.raised = NoError
                       THEN [kind |-> "service", service |-> got.service, id |-> None]
                       ELSE [kind |-> "container", service |-> 0, id |-> volume_name]
             asked == IF got.raised = NoError THEN <<>> ELSE <<volume_name>>
         IN  IF got.raised # NoError /\ volume_name \notin existing
             THEN [raised |-> ConfigurationError("volumes_from", owner, volume_name),
                   volumes_from |-> <<>>, lookups |-> asked]
             ELSE IF rest.raised # NoError
             THEN [rest EXCEPT !.lookups = asked \o rest.lookups]
             ELSE [raised |-> NoError, volumes_from |-> <<source>> \o rest.volumes_from,
                   lookups |-> asked \o rest.lookups]

\* a bug: the new service is put at the front of the list (every reference
\* to a service follows it to its new position)
InsertServiceFirst(registry, service) ==
    LET Moved(svc) ==
            [svc EXCEPT
                !.links = [k \in 1..Len(svc.links) |->
                              [svc.links[k] EXCEPT !.service = @ + 1]],
                !.volumes_from = [k \in 1..Len(svc.volumes_from) |->
                                     IF svc.volumes_from[k].kind = "service"
                                     THEN [svc.volumes_from[k] EXCEPT !.service = @ + 1]
                                     ELSE svc.volumes_from[k]]]
    IN  <<Moved(service)>> \o [i \in 1..Len(registry) |-> Moved(registry[i])]

\* project.services.append(Service(...))
AppendService(registry, service) == Append(registry, service)

\* service_dict.pop(key): the declaration named n loses the entry
Popped(dicts, n, key) ==
    [i \in 1..Len(dicts) |->
        IF dicts[i].name # n THEN dicts[i]
        ELSE IF key = "links" THEN [dicts[i] EXCEPT !.links = <<>>]
        ELSE [dicts[i] EXCEPT !.volumes_from = <<>>]]

\* the declarations a project is built from
Init ==
    /\ pc = "new"
    /\ IsDeclarationList(service_dicts, MaxProjectRefs)
    /\ sort_outcome = NoOutcome
    /\ name = <<>> /\ namespace = <<>>
    /\ services = <<>> /\ todo = <<>>
    /\ error = NoError /\ calls = <<>> /\ request = NoRequest /\ ret = <<>>

\* from_dicts, lines 65-66: the empty project and the sorted declarations
FromDictsSort ==
    /\ pc = "new"
    /\ \E args \in ProjectArgs :
           /\ name' = args[1]
           /\ namespace' = DefaultNamespace(args[2], args[1])
    /\ services' = <<>>
    /\ sort_outcome' = sort_service_dicts(service_dicts)
    /\ error' = sort_outcome'.raised
    /\ todo' = sort_outcome'.returned
    /\ pc' = IF sort_outcome'.raised # NoError THEN "failed"
             ELSE IF sort_outcome'.returned = <<>> THEN "ready"
             ELSE "building"
    /\ UNCHANGED <<service_dicts, calls, request, ret>>

\* from_dicts, lines 67-76: one turn of the loop, and the return after the last
FromDictsAppend ==
    /\ pc = "building"
    /\ LET service_dict == Head(todo)
           links == get_links(service_dict.links, service_dict.name, services, name,
                              namespace)
       IN  \E existing \in SUBSET SeqRange(service_dict.volumes_from) :
               LET volumes_from == get_volumes_from(service_dict.volumes_from,
                                                    service_dict.name, services, name,
                                                    namespace, existing)
               IN  IF links.raised # NoError
                   THEN /\ error' = links.raised
                        /\ service_dicts' = Popped(service_dicts, service_dict.name, "links")
                        /\ pc' = "failed"
                        /\ UNCHANGED <<services, todo>>
                   ELSE IF volumes_from.raised # NoError
                   THEN /\ error' = volumes_from.raised
                        /\ service_dicts' = Popped(Popped(service_dicts, service_dict.name,
                                                          "links"),
                                                   service_dict.name, "volumes_from")
                        /\ pc' = "failed"
                        /\ UNCHANGED <<services, todo>>
                   ELSE /\ services' = AppendService(services,
                                              [name |-> service_dict.name,
                                               links |-> links.links,
                                               volumes_from |-> volumes_from.volumes_from])
                        /\ service_dicts' = Popped(Popped(service_dicts, service_dict.name,
                                                          "links"),
                                                   service_dict.name, "volumes_from")
                        /\ todo' = Tail(todo)
                        /\ pc' = IF Tail(todo) = <<>> THEN "ready" ELSE "building"
                        /\ UNCHANGED error
    /\ UNCHANGED <<sort_outcome, name, namespace, calls, request, ret>>

----------------------------------------------------------------------------
(* The calls on a built project.                                           *)

\* the service_names arguments: every list of at most MaxRequested names
\* (None behaves as the empty list: `if not service_names`)
RequestLists == UNION {[1..k -> Names] : k \in 0..MaxRequested}

\* the keys get_service is called with: bare names and prefixed ones
Keys == Names \cup {prefix \o <<"_">> \o n : prefix \in ProjectNames \cup {<<"q">>}, n \in Names}

\* Project.get_service(key)
GetService ==
    /\ pc = "ready"
    /\ \E key \in Keys :
           LET got == get_service(key, services, name, namespace)
           IN  /\ request' = [op |-> "get_service", key |-> key]
               /\ error' = got.raised
               /\ ret' = IF got.raised = NoError THEN <<got.service>> ELSE <<>>
    /\ calls' = <<>>
    /\ pc' = "called"
    /\ UNCHANGED <<service_dicts, sort_outcome, name, namespace, services, todo>>

\* Project.get_services(service_names, include_links)
GetServices ==
    /\ pc = "ready"
    /\ \E service_names \in RequestLists, include_links \in BOOLEAN :
           LET got == get_services(service_names, include_links, services, name, namespace)
           IN  /\ request' = [op |-> "get_services", service_names |-> service_names,
                              include_links |-> include_links]
               /\ error' = got.raised
               /\ ret' = got.services
    /\ calls' = <<>>
    /\ pc' = "called"
    /\ UNCHANGED <<service_dicts, sort_outcome, name, namespace, services, todo>>

\* reversed(seq)
Reversed(seq) == [i \in 1..Len(seq) |-> seq[Len(seq) + 1 - i]]

\* for service in seq: service.method(): the calls made, in order
CallEach(method, seq) == [i \in 1..Len(seq) |-> [method |-> method, service |-> seq[i]]]

\* the body shared by start, stop, kill and restart:
\* for service in [reversed](self.get_services(service_names)): service.method()
Iterate(method, service_names, backwards) ==
    LET got == get_services(service_names, FALSE, services, name, namespace)
    IN  /\ request' = [op |-> method, service_names |-> service_names,
                       include_links |-> FALSE]
        /\ error' = got.raised
        /\ calls' = CallEach(method, IF backwards THEN Reversed(got.services)
                                     ELSE got.services)
        /\ ret' = <<>>
        /\ pc' = "called"
        /\ UNCHANGED <<service_dicts, sort_outcome, name, namespace, services, todo>>

\* Project.start(service_names)
Start == pc = "ready" /\ \E service_names \in RequestLists : Iterate("start", service_names, FALSE)

\* Project.stop(service_names)
Stop == pc = "ready" /\ \E service_names \in RequestLists : Iterate("stop", service_names, TRUE)

\* Project.kill(service_names)
Kill == pc = "ready" /\ \E service_names \in RequestLists : Iterate("kill", service_names, TRUE)

\* Project.restart(service_names)
Restart == pc = "ready" /\ \E service_names \in RequestLists : Iterate("restart", service_names, FALSE)

\* Project.up, lines 219-224: the creation strategy
CreateFunc(fresh_start, recreate) ==
    IF fresh_start THEN "fresh_start"
    ELSE IF recreate THEN "recreate_containers"
    ELSE "start_or_create_containers"

\* Project.up(service_names, start_links, recreate, fresh_start); every
\* create_func call is taken to yield one container, named by its service
Up ==
    /\ pc = "ready"
    /\ \E service_names \in RequestLists, start_links, fresh_start, recreate \in BOOLEAN :
           LET got == get_services(service_names, start_links, services, name, namespace)
           IN  /\ request' = [op |-> "up", service_names |-> service_names,
                              include_links |-> start_links]
               /\ error' = got.raised
               /\ calls' = CallEach(CreateFunc(fresh_start, recreate), got.services)
               /\ ret' = got.services
    /\ pc' = "called"
    /\ UNCHANGED <<service_dicts, sort_outcome, name, namespace, services, todo>>

\* the caller has taken the result of the call; the project serves the next one
Return ==
    /\ pc = "called"
    /\ pc' = "ready"
    /\ error' = NoError /\ calls' = <<>> /\ request' = NoRequest /\ ret' = <<>>
    /\ UNCHANGED <<service_dicts, sort_outcome, name, namespace, services, todo>>

Next ==
    \/ FromDictsSort
    \/ FromDictsAppend
    \/ GetService
    \/ GetServices
    \/ Start
    \/ Stop
    \/ Kill
    \/ Restart
    \/ Up
    \/ Return

Spec == Init /\ [][Next]_vars

----------------------------------------------------------------------------
(* The operations over several services, when a call on a service may      *)
(* raise.                                                                  *)

\* what a failing call on a service raises (APIError or any other exception)
ServiceRaised == [kind |-> "ServiceRaised", names |-> {}]

\* a bug: the loop goes on after a call has raised
MadeToTheEnd(method, seq, failing) == CallEach(method, seq)

\* for service in seq: service.method(), where the failing-th call raises
\* (0: none does): the calls made, the failing one being the last
Made(method, seq, failing) ==
    CallEach(method, IF failing = 0 THEN seq ELSE SubSeq(seq, 1, failing))

\* the services of seq for which can_be_built() holds, in order
RECURSIVE CanBeBuilt(_, _)
CanBeBuilt(seq, buildable) ==
    IF seq = <<>> THEN <<>>
    ELSE IF Head(seq) \in buildable THEN <<Head(seq)>> \o CanBeBuilt(Tail(seq), buildable)
    ELSE CanBeBuilt(Tail(seq), buildable)

\* the loop of an operation over the services planned, any one call raising;
\* raised is what get_services raised, and then nothing is planned
Loop(op, method, service_names, include_links, backwards, buildable, raised, planned) ==
    \E failing \in 0..Len(planned) :
        /\ request' = [op |-> op, method |-> method, service_names |-> service_names,
                       include_links |-> include_links, backwards |-> backwards,
                       buildable |-> buildable, failing |-> failing]
        /\ error' = IF raised # NoError THEN raised
                    ELSE IF failing > 0 THEN ServiceRaised
                    ELSE NoError
        /\ calls' = Made(method, planned, failing)
        /\ ret' = IF op = "up" /\ raised = NoError /\ failing = 0 THEN planned ELSE <<>>
        /\ pc' = "called"
        /\ UNCHANGED <<service_dicts, sort_outcome, name, namespace, services, todo>>

\* the services an operation goes through: get_services(...), reversed for
\* stop and kill, without those that cannot be built for build
InOrder(op, got, backwards, buildable) ==
    IF op = "build" THEN CanBeBuilt(got, buildable)
    ELSE IF backwards THEN Reversed(got)
    ELSE got

\* an operation: for service in [reversed](self.get_services(service_names,
\* include_links)): service.method()
Operate(op, method, service_names, include_links, backwards, buildable) ==
    LET got == get_services(service_names, include_links, services, name, namespace)
    IN  Loop(op, method, service_names, include_links, backwards, buildable,
             got.raised, InOrder(op, got.services, backwards, buildable))

\* the declarations of a project, listed in name order, links without alias
LifecycleInit ==
    /\ pc = "new"
    /\ \E declared \in SUBSET Names :
           service_dicts \in DeclarationsOf(Ascending(declared), MaxProjectRefs, FALSE)
    /\ sort_outcome = NoOutcome
    /\ name = <<>> /\ namespace = <<>>
    /\ services = <<>> /\ todo = <<>>
    /\ error = NoError /\ calls = <<>> /\ request = NoRequest /\ ret = <<>>

\* Project.start(service_names), a service.start() may raise
StartMayFail ==
    pc = "ready" /\ \E service_names \in RequestLists : Operate("start", "start", service_names, FALSE, FALSE, {})

\* Project.stop(service_names), a service.stop() may raise
StopMayFail ==
    pc = "ready" /\ \E service_names \in RequestLists : Operate("stop", "stop", service_names, FALSE, TRUE, {})

\* Project.kill(service_names), a service.kill() may raise
KillMayFail ==
    pc = "ready" /\ \E service_names \in RequestLists : Operate("kill", "kill", service_names, FALSE, TRUE, {})

\* Project.restart(service_names), a service.restart() may raise
RestartMayFail ==
    pc = "ready" /\ \E service_names \in RequestLists : Operate("restart", "restart", service_names, FALSE, FALSE, {})

\* Project.build(service_names): service.build() on the services that can
\* be built, the others are skipped with a log line
Build ==
    /\ pc = "ready"
    /\ \E service_names \in RequestLists, buildable \in SUBSET (1..Len(services)) :
           Operate("build", "build", service_names, FALSE, FALSE, buildable)

\* Project.up(service_names, start_links, recreate, fresh_start), a
\* create_func call may raise
UpMayFail ==
    /\ pc = "ready"
    /\ \E service_names \in RequestLists, start_links, fresh_start, recreate \in BOOLEAN :
           Operate("up", CreateFunc(fresh_start, recreate), service_names, start_links,
                   FALSE, {})

\* Project.pull(service_names)
Pull ==
    pc = "ready" /\ \E service_names \in RequestLists : Operate("pull", "pull", service_names, TRUE, FALSE, {})

\* Project.remove_stopped(service_names)
RemoveStopped ==
    pc = "ready" /\ \E service_names \in RequestLists : Operate("remove_stopped", "remove_stopped", service_names, FALSE, FALSE, {})

LifecycleNext ==
    \/ FromDictsSort
    \/ FromDictsAppend
    \/ StartMayFail
    \/ StopMayFail
    \/ KillMayFail
    \/ RestartMayFail
    \/ Build
    \/ UpMayFail
    \/ Pull
    \/ RemoveStopped
    \/ Return

LifecycleSpec == LifecycleInit /\ [][LifecycleNext]_vars

----------------------------------------------------------------------------
(* get_links and get_volumes_from called on a built project, as the tests  *)
(* of get_links do.                                                        *)

\* the config_links arguments: at most MaxRequested links, bare or aliased
LinkLists ==
    UNION {[1..k -> {LinkText(n, aliased) : n \in Names, aliased \in BOOLEAN}] :
               k \in 0..MaxRequested}

\* a project of services that refer to nothing
ResolverInit ==
    /\ pc = "new"
    /\ IsDeclarationList(service_dicts, 0)
    /\ sort_outcome = NoOutcome
    /\ name = <<>> /\ namespace = <<>>
    /\ services = <<>> /\ todo = <<>>
    /\ error = NoError /\ calls = <<>> /\ request = NoRequest /\ ret = <<>>

\* Project.get_links(config_links, name)
GetLinks ==
    /\ pc = "ready"
    /\ \E config_links \in LinkLists, owner \in Names :
           LET got == get_links(config_links, owner, services, name, namespace)
           IN  /\ request' = [op |-> "get_links", config_links |-> config_links,
                              owner |-> owner]
               /\ error' = got.raised
               /\ ret' = got.links
    /\ calls' = <<>>
    /\ pc' = "called"
    /\ UNCHANGED <<service_dicts, sort_outcome, name, namespace, services, todo>>

\* Project.get_volumes_from(service_dict); calls are the lookups made with
\* the runtime client
GetVolumesFrom ==
    /\ pc = "ready"
    /\ \E volume_names \in RequestLists, owner \in Names :
       \E existing \in SUBSET SeqRange(volume_names) :
           LET got == get_volumes_from(volume_names, owner, services, name, namespace,
                                       existing)
           IN  /\ request' = [op |-> "get_volumes_from", volumes_from |-> volume_names,
                              owner |-> owner, existing |-> existing]
               /\ error' = got.raised
               /\ ret' = got.volumes_from
               /\ calls' = [i \in 1..Len(got.lookups) |->
                               [method |-> "Container.from_id", id |-> got.lookups[i]]]
    /\ pc' = "called"
    /\ UNCHANGED <<service_dicts, sort_outcome, name, namespace, services, todo>>

ResolverNext ==
    \/ FromDictsSort
    \/ FromDictsAppend
    \/ GetLinks
    \/ GetVolumesFrom
    \/ Return

ResolverSpec == ResolverInit /\ [][ResolverNext]_vars

----------------------------------------------------------------------------
(* Projects whose service names and link references contain '_'.           *)

\* service names, one of them with a '_'
UnderscoreNames == {<<"a">>, <<"b">>, <<"a", "_", "b">>}

\* what a link may name: a service name as it is, or with a prefix and '_'
PrefixedTargets ==
    UnderscoreNames
        \cup {prefix \o <<"_">> \o n : prefix \in ProjectNames \cup {<<"q">>},
                                        n \in {<<"a">>, <<"b">>}}

\* the lists of declarations named as order says, with at most k links, bare
\* or prefixed, and no volumes_from
RECURSIVE PrefixedDeclarationsOf(_, _)
PrefixedDeclarationsOf(order, k) ==
    IF order = <<>> THEN {<<>>}
    ELSE UNION {{<<Declaration(Head(order), linked, {}, FALSE)>> \o rest :
                     rest \in PrefixedDeclarationsOf(Tail(order), k - Cardinality(linked))} :
                linked \in {c \in SUBSET PrefixedTargets : Cardinality(c) <= k}}

NamespaceInit ==
    /\ pc = "new"
    /\ \E order \in UNION {Orderings(declared) : declared \in SUBSET UnderscoreNames} :
           service_dicts \in PrefixedDeclarationsOf(order, MaxProjectRefs)
    /\ sort_outcome = NoOutcome
    /\ name = <<>> /\ namespace = <<>>
    /\ services = <<>> /\ todo = <<>>
    /\ error = NoError /\ calls = <<>> /\ request = NoRequest /\ ret = <<>>

\* Project.get_service(service.name), for a service of the project
GetServiceByItsName ==
    /\ pc = "ready"
    /\ \E i \in 1..Len(services) :
           LET got == get_service(services[i].name, services, name, namespace)
           IN  /\ request' = [op |-> "get_service", key |-> services[i].name]
               /\ error' = got.raised
               /\ ret' = IF got.raised = NoError THEN <<got.service>> ELSE <<>>
    /\ calls' = <<>>
    /\ pc' = "called"
    /\ UNCHANGED <<service_dicts, sort_outcome, name, namespace, services, todo>>

NamespaceNext ==
    \/ FromDictsSort
    \/ FromDictsAppend
    \/ GetServiceByItsName
    \/ Return

NamespaceSpec == NamespaceInit /\ [][NamespaceNext]_vars

----------------------------------------------------------------------------
(* The reference graph of a list of declarations, read off the             *)
(* declarations themselves.                                                *)

DeclaredNames(d) == {d[i].name : i \in 1..Len(d)}

\* the names a declaration refers to: its link targets without the alias,
\* and its volumes_from entries
LinkTargets(decl) == {SplitHead(decl.links[i], ":") : i \in 1..Len(decl.links)}
MountTargets(decl) == SeqRange(decl.volumes_from)
RefTargets(decl) == LinkTargets(decl) \cup MountTargets(decl)

DeclarationNamed(d, n) == CHOOSE decl \in SeqRange(d) : decl.name = n

\* the declared names n refers to, within the set S of names
TargetsWithin(d, n, S) == RefTargets(DeclarationNamed(d, n)) \cap S

RECURSIVE ClosureWithin(_, _, _)
ClosureWithin(d, reached, S) ==
    LET more == reached \cup UNION {TargetsWithin(d, n, S) : n \in reached}
    IN  IF more = reached THEN reached ELSE ClosureWithin(d, more, S)

\* the names n reaches by one reference or more, through names of S only
ReachedWithin(d, n, S) == ClosureWithin(d, TargetsWithin(d, n, S), S)
Reached(d, n) == ReachedWithin(d, n, DeclaredNames(d))

SelfLinked(d) == {decl.name : decl \in {q \in SeqRange(d) : q.name \in LinkTargets(q)}}
SelfMounted(d) == {decl.name : decl \in {q \in SeqRange(d) : q.name \in MountTargets(q)}}
NoSelfReference(d) == SelfLinked(d) = {} /\ SelfMounted(d) = {}

\* the names on a cycle of two declarations or more
OnCycle(d) ==
    {n \in DeclaredNames(d) :
        \E m \in DeclaredNames(d) \ {n} : m \in Reached(d, n) /\ n \in Reached(d, m)}

\* all the declarations form one cycle and there is no other reference
PureCycle(d) ==
    /\ Len(d) >= 2
    /\ OnCycle(d) = DeclaredNames(d)
    /\ \A i \in 1..Len(d) : Len(d[i].links) + Len(d[i].volumes_from) = 1

PositionOf(seq, n) == CHOOSE i \in 1..Len(seq) : seq[i].name = n

Sorted == pc = "sorted"

----------------------------------------------------------------------------
(* Claims about sort_service_dicts, under SortSpec.                        *)

\* C1: for declarations with unique names and no cycle or self-reference,
\* sort_service_dicts returns every declaration exactly once, and whenever b's
\* name is a link target (alias stripped) or a volumes_from entry of a, b
\* stands strictly before a.
C1_SortPutsReferencedFirst ==
    (Sorted /\ NoSelfReference(service_dicts) /\ OnCycle(service_dicts) = {})
    => /\ sort_outcome.raised = NoError
       /\ Len(sort_outcome.returned) = Len(service_dicts)
       /\ SeqRange(sort_outcome.returned) = SeqRange(service_dicts)
       /\ \A i, j \in 1..Len(sort_outcome.returned) :
              sort_outcome.returned[j].name \in RefTargets(sort_outcome.returned[i])
              => j < i

\* an aliased link and a volumes_from chain, declared dependents first
C1_Witness ==
    /\ Sorted
    /\ Len(service_dicts) = 3
    /\ service_dicts[1].links = <<<<"b", ":", "x">>>>
    /\ service_dicts[2].name = <<"b">>
    /\ service_dicts[2].volumes_from = <<<<"c">>>>
    /\ sort_outcome.raised = NoError
    /\ sort_outcome.returned[1].name = <<"c">>
    /\ sort_outcome.returned[3].name = <<"a">>

\* C2 as stated: with a cycle of two declarations or more and no
\* self-reference, the sort raises the generic circular error, and the error
\* names every declaration that is on a cycle.
C2_CircularErrorNamesEveryCycle ==
    (Sorted /\ NoSelfReference(service_dicts) /\ OnCycle(service_dicts) # {})
    => /\ sort_outcome.raised.kind = "circular"
       /\ OnCycle(service_dicts) \subseteq sort_outcome.raised.names

\* C2 (amended): with a cycle of two declarations or more and no
\* self-reference, the sort raises the generic circular error and returns
\* nothing; the names in the error are declared names and contain every
\* declaration of at least one cycle; when the declarations form one pure
\* cycle, the error names exactly all of them.
C2_CircularErrorNamesACycle ==
    (Sorted /\ NoSelfReference(service_dicts) /\ OnCycle(service_dicts) # {})
    => /\ sort_outcome.raised.kind = "circular"
       /\ sort_outcome.returned = <<>>
       /\ sort_outcome.raised.names \subseteq DeclaredNames(service_dicts)
       /\ \E n \in sort_outcome.raised.names :
              n \in ReachedWithin(service_dicts, n, sort_outcome.raised.names)
       /\ PureCycle(service_dicts)
              => sort_outcome.raised.names = DeclaredNames(service_dicts)

\* the pure cycle of three links is rejected, naming all three
C2_Witness ==
    /\ Sorted
    /\ Len(service_dicts) = 3
    /\ PureCycle(service_dicts)
    /\ \A i \in 1..3 : Len(service_dicts[i].links) = 1
    /\ sort_outcome.raised = [kind |-> "circular", names |-> Names]

\* C3 as stated: whenever some declaration names itself among its own link
\* targets, the sort fails with the self-link error.
C3_SelfLinkAlwaysReported ==
    (Sorted /\ SelfLinked(service_dicts) # {})
    => sort_outcome.raised.kind = "self_link"

\* C4 as stated: whenever some declaration lists its own name in
\* volumes_from, the sort fails with the self-volume error.
C4_SelfVolumeAlwaysReported ==
    (Sorted /\ SelfMounted(service_dicts) # {})
    => sort_outcome.raised.kind = "self_volume"

----------------------------------------------------------------------------
(* The dependency graph of a registry, read off its services.              *)

\* the services that service i links to, and those it mounts volumes from
LinkedBy(i) == {services[i].links[k].service : k \in 1..Len(services[i].links)}
MountedBy(i) ==
    {v.service : v \in {w \in SeqRange(services[i].volumes_from) : w.kind = "service"}}
DependenciesOf(i) == LinkedBy(i) \cup MountedBy(i)

\* S and every service reached from S along links
RECURSIVE LinkClosure(_)
LinkClosure(S) ==
    LET more == S \cup UNION {LinkedBy(i) : i \in S}
    IN  IF more = S THEN S ELSE LinkClosure(more)

\* the services named by a list of names that all name services
ServicesNamed(service_names) ==
    {i \in 1..Len(services) : services[i].name \in SeqRange(service_names)}
AllRegistered(service_names) ==
    SeqRange(service_names) \subseteq {services[i].name : i \in 1..Len(services)}

\* the depth-first expansion of a list of services: the expansions of the
\* link targets of each, in order, and then the service
RECURSIVE DepthFirst(_)
DepthFirst(seq) ==
    IF seq = <<>> THEN <<>>
    ELSE DepthFirst([k \in 1..Len(services[Head(seq)].links) |->
                        services[Head(seq)].links[k].service])
         \o <<Head(seq)>> \o DepthFirst(Tail(seq))

\* the first occurrences of a sequence, in order
RECURSIVE FirstOccurrences(_)
FirstOccurrences(seq) ==
    IF seq = <<>> THEN <<>>
    ELSE LET front == SubSeq(seq, 1, Len(seq) - 1)
             last  == seq[Len(seq)]
         IN  IF last \in SeqRange(front) THEN FirstOccurrences(front)
             ELSE Append(FirstOccurrences(front), last)

NoDuplicates(seq) == \A i, j \in 1..Len(seq) : seq[i] = seq[j] => i = j

Called(op) == pc = "called" /\ request.op = op
Succeeded == error = NoError

\* the services the calls of the last operation were made on, in order
Operated == [i \in 1..Len(calls) |-> calls[i].service]

\* in seq, every dependency that occurs stands before the service that has it
DependenciesFirst(seq) ==
    \A i, j \in 1..Len(seq) : seq[j] \in DependenciesOf(seq[i]) => j < i

\* in seq, every service stands before the dependencies of it that occur
DependentsFirst(seq) ==
    \A i, j \in 1..Len(seq) : seq[j] \in DependenciesOf(seq[i]) => i < j

----------------------------------------------------------------------------
(* Claims about the project, under Spec.                                   *)

C6_StartDependenciesFirst ==
    (Called("start") \/ Called("restart")) => DependenciesFirst(Operated)

\* C7 as stated: in every stop or kill call, every service that depends on
\* another service operated on in the call is stopped before it.
C7_StopDependentsFirst ==
    (Called("stop") \/ Called("kill")) => DependentsFirst(Operated)

\* C8 as stated: in every up call with start_links, a link target or
\* volume-from source is processed before the service that refers to it, and
\* every link target of a requested service is processed.
C8_UpDependenciesFirst ==
    (Called("up") /\ request.include_links /\ Succeeded)
    => /\ DependenciesFirst(Operated)
       /\ \A i \in ServicesNamed(request.service_names) :
              LinkedBy(i) \subseteq SeqRange(Operated)

\* C9 as stated: get_services(names) without links returns the named
\* services in the order they have in the registry, without duplicates.
C9_NamedServicesInRegistryOrder ==
    (/\ Called("get_services") /\ ~request.include_links /\ Succeeded
     /\ request.service_names # <<>>)
    => /\ SeqRange(ret) = ServicesNamed(request.service_names)
       /\ \A i, j \in 1..Len(ret) : i < j => ret[i] < ret[j]

\* C10: when the namespace is defaulted to the project name N, then for every
\* registered service whose name s has no '_', get_service(s) and
\* get_service(N + '_' + s) return that service.
C10_BareAndPrefixedKeyFindService ==
    (Called("get_service") /\ namespace = name)
    => \A i \in 1..Len(services) :
           (/\ ~HasChar(services[i].name, "_")
            /\ request.key \in {services[i].name, name \o <<"_">> \o services[i].name})
           => Succeeded /\ ret = <<i>>

\* the prefixed key of the second service of a project whose name has a '_'
C10_Witness ==
    /\ Called("get_service") /\ namespace = name
    /\ HasChar(name, "_")
    /\ Len(services) >= 2
    /\ request.key = name \o <<"_">> \o services[2].name
    /\ ret = <<2>>

\* the part of a key after its last '_', the whole key when it has none
RECURSIVE ShortName(_)
ShortName(key) ==
    IF key = <<>> \/ key[Len(key)] = "_" THEN <<>>
    ELSE Append(ShortName(SubSeq(key, 1, Len(key) - 1)), key[Len(key)])

\* C11: when get_service(key) finds no service it raises NoSuchService whose
\* name is the key exactly as passed, prefix included; a service it returns
\* has the short name the key resolves to.
C11_NoSuchServiceCarriesKey ==
    Called("get_service")
    => /\ ~Succeeded => (error = [kind |-> "NoSuchService", names |-> {request.key}]
                         /\ ret = <<>>)
       /\ Succeeded => (/\ Len(ret) = 1 /\ ret[1] \in 1..Len(services)
                        /\ services[ret[1]].name = ShortName(request.key))

\* a prefixed key that finds nothing, in a project that has services
C11_Witness ==
    /\ Called("get_service")
    /\ HasChar(request.key, "_")
    /\ services # <<>>
    /\ error = [kind |-> "NoSuchService", names |-> {request.key}]

----------------------------------------------------------------------------
(* Claims about get_links and get_volumes_from.                            *)

\* the target of a link text: what stands before its first ':'
TargetOf(link) == IF HasChar(link, ":") THEN SplitHead(link, ":") ELSE link

\* the alias of a link text, None when it has no ':'
AliasOf(link) == IF HasChar(link, ":") THEN SplitRest(link, ":") ELSE None

RegisteredNames == {services[i].name : i \in 1..Len(services)}

\* the positions of a list whose entry (its target) names no service
Unresolved(entries) == {k \in 1..Len(entries) : TargetOf(entries[k]) \notin RegisteredNames}

Least(S) == CHOOSE k \in S : \A j \in S : k <= j

\* C12: get_links fails with a ConfigurationError, not NoSuchService, as soon
\* as the target of some reference names no service, and the error names the
\* owner and that target without its alias; when every target resolves it
\* gives one link (target service, alias or None) per reference, in order.
C12_LinksResolveOrConfigurationError ==
    Called("get_links")
    => LET refs == request.config_links
       IN  IF Unresolved(refs) # {}
           THEN /\ error = ConfigurationError("link", request.owner,
                                              TargetOf(refs[Least(Unresolved(refs))]))
                /\ ret = <<>>
           ELSE /\ Succeeded
                /\ Len(ret) = Len(refs)
                /\ \A k \in 1..Len(refs) :
                       /\ ret[k].service \in 1..Len(services)
                       /\ services[ret[k].service].name = TargetOf(refs[k])
                       /\ ret[k].alias = AliasOf(refs[k])

\* a link that resolves, then an aliased one whose target is missing
C12_Witness ==
    /\ Called("get_links")
    /\ Len(request.config_links) = 2
    /\ Unresolved(request.config_links) = {2}
    /\ HasChar(request.config_links[2], ":")
    /\ error.kind = "ConfigurationError"

\* the entries of a list at the positions in S, in order
RECURSIVE Selected(_, _)
Selected(entries, S) ==
    IF entries = <<>> THEN <<>>
    ELSE LET front == Selected(SubSeq(entries, 1, Len(entries) - 1), S)
         IN  IF Len(entries) \in S THEN Append(front, entries[Len(entries)]) ELSE front

\* the positions of a volumes_from list that name neither a service nor a
\* container the runtime client finds
Unfound(entries, existing) == {k \in Unresolved(entries) : entries[k] \notin existing}

\* C14: get_volumes_from yields the registry service for an entry that
\* get_service resolves and does not ask the runtime client about it; it
\* looks an entry up as a container only when no service has the name, and
\* raises ConfigurationError naming owner and entry only when that fails
\* too; the sources keep the order of the entries.
C14_VolumesFromServiceBeforeContainer ==
    Called("get_volumes_from")
    => LET entries  == request.volumes_from
           unfound  == Unfound(entries, request.existing)
           consulted == IF unfound = {} THEN Unresolved(entries)
                        ELSE {k \in Unresolved(entries) : k <= Least(unfound)}
       IN  /\ calls = [i \in 1..Cardinality(consulted) |->
                          [method |-> "Container.from_id",
                           id |-> Selected(entries, consulted)[i]]]
           /\ IF unfound # {}
              THEN /\ error = ConfigurationError("volumes_from", request.owner,
                                                 entries[Least(unfound)])
                   /\ ret = <<>>
              ELSE /\ Succeeded
                   /\ Len(ret) = Len(entries)
                   /\ \A k \in 1..Len(entries) :
                          IF entries[k] \in RegisteredNames
                          THEN /\ ret[k].kind = "service"
                               /\ ret[k].service \in 1..Len(services)
                               /\ services[ret[k].service].name = entries[k]
                          ELSE /\ ret[k].kind = "container"
                               /\ ret[k].id = entries[k]

\* a container exists under the name of a registered service and the service
\* is taken, next to an entry that only the runtime client knows
C14_Witness ==
    /\ Called("get_volumes_from")
    /\ Succeeded
    /\ Len(ret) = 2
    /\ ret[1].kind = "service"
    /\ request.volumes_from[1] \in request.existing
    /\ ret[2].kind = "container"
    /\ Len(calls) = 1

----------------------------------------------------------------------------
(* Claims about the operations over several services.                      *)

LifecycleOps == {"start", "stop", "kill", "restart", "build", "up", "pull", "remove_stopped"}

\* an operation of LifecycleOps has been called
Operation == pc = "called" /\ request.op \in LifecycleOps

\* the calls the operation makes when no call raises: the services of its
\* get_services, reversed for stop and kill, the unbuildable ones left out
\* for build
Planned ==
    LET got == get_services(request.service_names, request.include_links, services,
                            name, namespace).services
        order == IF request.op \in {"stop", "kill"} THEN Reversed(got) ELSE got
    IN  CallEach(request.method,
                 SelectSeq(order, LAMBDA i : request.op = "build" => i \in request.buildable))

\* C13: when the call on the k-th service of an operation over several
\* services raises, the operation ends with that failure: the services after
\* the k-th are not called, and the calls made on the earlier ones are not
\* undone (no other call follows the failing one).
C13_FailureStopsTheIteration ==
    (Operation /\ request.failing > 0)
    => /\ error = ServiceRaised
       /\ ret = <<>>
       /\ request.failing <= Len(Planned)
       /\ calls = SubSeq(Planned, 1, request.failing)

\* the first of several calls raises
C13_Witness ==
    /\ Operation
    /\ request.failing = 1
    /\ Len(Planned) >= 2
    /\ Len(calls) = 1
    /\ error = ServiceRaised

\* the names of a request that name no service
Missing(service_names) == {k \in 1..Len(service_names) : service_names[k] \notin RegisteredNames}

\* C20: when a name passed to start, stop, kill, restart, build, up, pull or
\* remove_stopped names no service, the call raises NoSuchService (for the
\* first such name) before any service is called, the services named before
\* it included, and the registry holds the services from_dicts built.
C20_UnknownNameRaisesBeforeAnyCall ==
    (Operation /\ Missing(request.service_names) # {})
    => /\ error = [kind |-> "NoSuchService",
                   names |-> {request.service_names[Least(Missing(request.service_names))]}]
       /\ calls = <<>>
       /\ ret = <<>>
       /\ [i \in 1..Len(services) |-> services[i].name]
              = [i \in 1..Len(sort_outcome.returned) |-> sort_outcome.returned[i].name]

\* a registered name, then a missing one
C20_Witness ==
    /\ Operation
    /\ Len(request.service_names) = 2
    /\ Missing(request.service_names) = {2}
    /\ error.kind = "NoSuchService"

----------------------------------------------------------------------------
(* Claims about the order sort_service_dicts gives, under SortSpec.        *)

\* the lists that hold the declarations of d in any order
Reorderings(d) ==
    {[i \in 1..Len(d) |-> d[f[i]]] :
        f \in {g \in [1..Len(d) -> 1..Len(d)] : \A i, j \in 1..Len(d) : g[i] = g[j] => i = j}}

\* C15: sort_service_dicts depends on the set of declarations only: given
\* the same declarations in any other order it returns the same sequence, or
\* raises the same DependencyError.
C15_SortIgnoresInputOrder ==
    Sorted => \A other \in Reorderings(service_dicts) :
                  sort_service_dicts(other) = sort_outcome

\* neither declaration reaches the other through references
Unrelated(d, m, n) == m \notin Reached(d, n) /\ n \notin Reached(d, m)

\* n refers to no declared name and no declaration refers to n
Isolated(d, n) ==
    /\ RefTargets(DeclarationNamed(d, n)) \cap DeclaredNames(d) = {}
    /\ \A decl \in SeqRange(d) : n \notin RefTargets(decl)

\* the names of a list of declarations, in its order
NamesOf(d) == [i \in 1..Len(d) |-> d[i].name]

\* C16 as stated: in the output, any two declarations of which neither
\* reaches the other stand in ascending name order, and without any
\* reference the output is the name-sorted sequence.
C16_UnrelatedInNameOrder ==
    (Sorted /\ sort_outcome.raised = NoError)
    => /\ \A i, j \in 1..Len(sort_outcome.returned) :
              (i < j /\ Unrelated(service_dicts, sort_outcome.returned[i].name,
                                  sort_outcome.returned[j].name))
              => StrLess(sort_outcome.returned[i].name, sort_outcome.returned[j].name)
       /\ (\A n \in DeclaredNames(service_dicts) : Isolated(service_dicts, n))
              => NamesOf(sort_outcome.returned) = Ascending(DeclaredNames(service_dicts))

\* C16, amended: in the output, any two declarations that refer to no
\* declaration and are referred to by none stand in ascending name order,
\* and without any reference the output is the name-sorted sequence.
C16_IsolatedInNameOrder ==
    (Sorted /\ sort_outcome.raised = NoError)
    => /\ \A i, j \in 1..Len(sort_outcome.returned) :
              (/\ i < j
               /\ Isolated(service_dicts, sort_outcome.returned[i].name)
               /\ Isolated(service_dicts, sort_outcome.returned[j].name))
              => StrLess(sort_outcome.returned[i].name, sort_outcome.returned[j].name)
       /\ (\A n \in DeclaredNames(service_dicts) : Isolated(service_dicts, n))
              => NamesOf(sort_outcome.returned) = Ascending(DeclaredNames(service_dicts))

\* three declarations without references, given in descending order
C16_Witness ==
    /\ Sorted
    /\ NamesOf(service_dicts) = <<<<"c">>, <<"b">>, <<"a">>>>
    /\ \A n \in DeclaredNames(service_dicts) : Isolated(service_dicts, n)
    /\ NamesOf(sort_outcome.returned) = <<<<"a">>, <<"b">>, <<"c">>>>

----------------------------------------------------------------------------
(* Claims about the registry from_dicts builds.                            *)

\* C18: after every append of from_dicts and in the finished registry, the
\* services a service links to, and the services of the registry among its
\* volumes_from sources, stand at strictly earlier positions than the
\* service itself.
C18_DependenciesRegisteredEarlier ==
    \A i \in 1..Len(services) :
        /\ \A k \in 1..Len(services[i].links) : services[i].links[k].service \in 1..(i - 1)
        /\ \A k \in 1..Len(services[i].volumes_from) :
               services[i].volumes_from[k].kind = "service"
               => services[i].volumes_from[k].service \in 1..(i - 1)

\* from_dicts has appended a service that links one and mounts another, and
\* has a declaration left
C18_Witness ==
    /\ pc = "building"
    /\ todo # <<>>
    /\ \E i \in 1..Len(services) :
           /\ services[i].links # <<>>
           /\ services[i].volumes_from # <<>>
           /\ services[i].volumes_from[1].kind = "service"

----------------------------------------------------------------------------
(* Claims about names and references with a '_', under NamespaceSpec.      *)

\* C17: every registered service, one whose name contains '_' included, is
\* returned by get_service(service.name): a key whose prefix is not the
\* namespace is looked up as it is.
C17_ServiceFoundByItsName ==
    (Called("get_service") /\ request.key \in RegisteredNames)
    => /\ Succeeded
       /\ Len(ret) = 1
       /\ services[ret[1]].name = request.key

\* the declarations from_dicts was given (it pops links and volumes_from off
\* service_dicts as it goes; the sorted list keeps them)
Declared == IF sort_outcome.raised = NoError /\ pc # "new" THEN sort_outcome.returned
            ELSE service_dicts

\* the registry that holds a service for every declaration of d
AllOf(d) == [i \in 1..Len(d) |-> [name |-> d[i].name, links |-> <<>>, volumes_from |-> <<>>]]

\* get_service resolves the link to a declared service
Resolves(d, link) == get_service(TargetOf(link), AllOf(d), name, namespace).raised = NoError

\* d with every link replaced by the name of the service it resolves to
AsResolved(d) ==
    [i \in 1..Len(d) |->
        [d[i] EXCEPT !.links =
            [k \in 1..Len(d[i].links) |->
                d[get_service(TargetOf(d[i].links[k]), AllOf(d), name, namespace).service].name]]]

\* C19: for declarations with unique names, every link of which get_service
\* would resolve to a declared service (a bare name or its prefixed form),
\* and without cycle or self-reference, from_dicts raises no
\* ConfigurationError and builds one service per declaration, in the order
\* of the sort.
C19_ResolvableLinksBuildTheProject ==
    (/\ pc \in {"ready", "failed"}
     /\ \A i \in 1..Len(Declared) : \A k \in 1..Len(Declared[i].links) :
            Resolves(Declared, Declared[i].links[k])
     /\ NoSelfReference(AsResolved(Declared))
     /\ OnCycle(AsResolved(Declared)) = {})
    => /\ pc = "ready"
       /\ error = NoError
       /\ NamesOf(services) = NamesOf(sort_outcome.returned)
       /\ Len(services) = Len(service_dicts)

====
